---- MODULE Spec2Model ----
(***************************************************************************)
(* Model of the query-resolution and resource-matching engine of           *)
(* GenieResource (LangchainAgent/src): the ReActAgent response cache, the  *)
(* QueryTranslator follow-up merge, FirebaseClient.fetch_employees with    *)
(* its availability batch, ResourceFetcher.fetch_resources and its         *)
(* follow-up filter, the rank hierarchy checks, and analyze_query.         *)
(*                                                                         *)
(* Python strings are TLA+ strings (Len, SubSeq and \o apply to them);     *)
(* a Python dict is a sequence of entries in insertion order.              *)
(***************************************************************************)
EXTENDS Integers, Sequences, FiniteSets, TLC

VARIABLES
    \* ---- ReActAgent (agent.py) ----
    session_history,   \* list of message contents, human and AI alternating
    response_cache,    \* dict query_hash -> entry, in insertion order
    cache_hits,
    cache_misses,
    use_cache,
    cache_ttl,
    clock,             \* time.time()
    inserts,           \* number of cache insertions so far (history variable)
    calls,             \* number of process_message calls so far (history variable)
    last_hit,          \* key of the most recent cache hit (history variable)
    call,              \* what the last process_message call observed and returned
    \* ---- QueryTranslator (query_translator.py), MasterAgent (master_agent.py) ----
    last_query_context, \* MasterAgent.last_query_context
    translation,       \* arguments and outcome of the last translate call
    turns,             \* number of translate calls so far (history variable)
    \* ---- FirebaseClient (firebase_utils.py) ----
    employees,         \* documents of the employees collection, in query order
    availability,      \* availability collection: employee number -> document
    fetch,             \* the call in progress: its arguments and its result
    \* ---- ResourceFetcher (resource_fetcher.py) ----
    cached_results,
    last_query,
    \* ---- rank hierarchy (test_rank_queries.py, tests/test_agent_tools.py) ----
    resolution,        \* the rank resolution in progress: its arguments and result
    \* ---- analyze_query (langgraph_agent.py) ----
    analyze            \* the analyze_query call in progress: its position and state

agent_vars == <<session_history, response_cache, cache_hits, cache_misses,
                use_cache, cache_ttl, clock, inserts, calls, last_hit, call>>

translator_vars == <<last_query_context, translation, turns>>

store_vars == <<employees, availability, fetch>>

fetcher_vars == <<cached_results, last_query>>

other_than_agent == <<translator_vars, store_vars, fetcher_vars, resolution, analyze>>

other_than_translator == <<agent_vars, store_vars, fetcher_vars, resolution, analyze>>

other_than_store == <<agent_vars, translator_vars, fetcher_vars, resolution, analyze>>

other_than_ranks == <<agent_vars, translator_vars, store_vars, fetcher_vars, analyze>>

other_than_analyze == <<agent_vars, translator_vars, store_vars, fetcher_vars, resolution>>

vars == <<agent_vars, translator_vars, store_vars, fetcher_vars, resolution, analyze>>

None == "None"

Range(s) == {s[i] : i \in DOMAIN s}

(***************************************************************************)
(* Bounds                                                                  *)
(***************************************************************************)
MaxTime == 3
MaxCalls == 4
MaxFifoCalls == 104
MaxTurns == 2

(***************************************************************************)
(* Program constants                                                       *)
(***************************************************************************)
CacheMaxEntries == 100
HistoryMax == 10

(***************************************************************************)
(* Python str methods                                                      *)
(***************************************************************************)
UpperChars == "ABCDEFGHIJKLMNOPQRSTUVWXYZ"
LowerChars == "abcdefghijklmnopqrstuvwxyz"

UpperToLower ==
    [c \in {SubSeq(UpperChars, i, i) : i \in 1..26} |->
        LET i == CHOOSE i \in 1..26 : SubSeq(UpperChars, i, i) = c
        IN SubSeq(LowerChars, i, i)]

LowerChar(c) == IF c \in DOMAIN UpperToLower THEN UpperToLower[c] ELSE c

\* str.lower()
RECURSIVE Lower(_)
Lower(s) ==
    IF Len(s) = 0 THEN ""
    ELSE LowerChar(SubSeq(s, 1, 1)) \o Lower(SubSeq(s, 2, Len(s)))

\* sub in s
Contains(s, sub) ==
    \E i \in 1..(Len(s) - Len(sub) + 1) : SubSeq(s, i, i + Len(sub) - 1) = sub

\* s.startswith(prefix)
StartsWith(s, prefix) ==
    Len(prefix) <= Len(s) /\ SubSeq(s, 1, Len(prefix)) = prefix

\* s.split(): the words of s, separated by runs of blanks
RECURSIVE WordsFrom(_, _, _)
WordsFrom(s, i, cur) ==
    IF i > Len(s)
    THEN IF cur = "" THEN <<>> ELSE <<cur>>
    ELSE LET c == SubSeq(s, i, i)
         IN IF c = " "
            THEN (IF cur = "" THEN <<>> ELSE <<cur>>) \o WordsFrom(s, i + 1, "")
            ELSE WordsFrom(s, i + 1, cur \o c)

Words(s) == WordsFrom(s, 1, "")

(***************************************************************************)
(* Python dict, kept as a sequence of entries with a key field             *)
(***************************************************************************)
DictKeys(d) == {d[i].key : i \in DOMAIN d}

DictGet(d, k) == d[CHOOSE i \in DOMAIN d : d[i].key = k]

DictDel(d, k) == SelectSeq(d, LAMBDA e : e.key # k)

\* d[k] = v: an existing key keeps its position, a new key goes last
DictSet(d, e) ==
    IF e.key \in DictKeys(d)
    THEN [i \in DOMAIN d |-> IF d[i].key = e.key THEN e ELSE d[i]]
    ELSE Append(d, e)

(***************************************************************************)
(* ReActAgent                                                              *)
(***************************************************************************)
Messages == {"a", "ab"}
Responses == {"r"}
CacheTtls == {1, 2}

\* session_history[-n:]
LastN(s, n) == IF Len(s) > n THEN SubSeq(s, Len(s) - n + 1, Len(s)) ELSE s

\* a key over the first two messages of the history instead of the last two
hash_query_first_messages(message, history) ==
    LET context == IF Len(history) >= 2 THEN history[1] \o history[2] ELSE ""
    IN message \o context

\* md5 is modelled as collision-free: the key is the hashed string itself
hash_query(message, history) ==
    LET context == IF Len(history) >= 2
                   THEN history[Len(history) - 1] \o history[Len(history)]
                   ELSE ""
    IN message \o context

\* the expiry test of _check_cache with >= in place of >
check_cache_ge(cache, query_hash, now) ==
    IF ~use_cache \/ query_hash \notin DictKeys(cache)
    THEN [cache |-> cache, found |-> FALSE, response |-> None]
    ELSE LET cached_item == DictGet(cache, query_hash)
         IN IF now - cached_item.timestamp >= cache_ttl
            THEN [cache |-> DictDel(cache, query_hash), found |-> FALSE, response |-> None]
            ELSE [cache |-> cache, found |-> TRUE, response |-> cached_item.response]

\* _check_cache: the cache after the lookup, and the cached response
\* (found = FALSE stands for the None return)
check_cache(cache, query_hash, now) ==
    IF ~use_cache \/ query_hash \notin DictKeys(cache)
    THEN [cache |-> cache, found |-> FALSE, response |-> None]
    ELSE LET cached_item == DictGet(cache, query_hash)
         IN IF now - cached_item.timestamp > cache_ttl
            THEN [cache |-> DictDel(cache, query_hash), found |-> FALSE, response |-> None]
            ELSE [cache |-> cache, found |-> TRUE, response |-> cached_item.response]

\* _update_cache dropping the newest entry instead of the oldest
update_cache_newest(cache, query_hash, response, now, ins) ==
    IF use_cache
    THEN LET c1 == DictSet(cache, [key |-> query_hash, response |-> response,
                                   timestamp |-> now, ins |-> ins])
         IN IF Len(c1) > CacheMaxEntries THEN SubSeq(c1, 1, Len(c1) - 1) ELSE c1
    ELSE cache

\* _update_cache
update_cache(cache, query_hash, response, now, ins) ==
    IF use_cache
    THEN LET c1 == DictSet(cache, [key |-> query_hash, response |-> response,
                                   timestamp |-> now, ins |-> ins])
         IN IF Len(c1) > CacheMaxEntries THEN Tail(c1) ELSE c1
    ELSE cache

NoCall == [message |-> None, key |-> None, had_entry |-> FALSE, age |-> 0,
           stored |-> None, deleted |-> FALSE, invoked |-> FALSE,
           stored_key |-> None, evicted |-> {}, result |-> None]

\* process_message(message) where the agent executor either raises or
\* yields the final response text `outcome`
process_message(message, outcome) ==
    LET query_hash == hash_query(message, session_history)
        had        == use_cache /\ query_hash \in DictKeys(response_cache)
        item       == IF had THEN DictGet(response_cache, query_hash) ELSE None
        looked     == IF use_cache THEN check_cache(response_cache, query_hash, clock)
                      ELSE [cache |-> response_cache, found |-> FALSE, response |-> None]
        cache1     == looked.cache
        cached_response == looked.response
        obs        == [message |-> message, key |-> query_hash, had_entry |-> had,
                       age |-> IF had THEN clock - item.timestamp ELSE 0,
                       stored |-> IF had THEN item.response ELSE None,
                       deleted |-> had /\ query_hash \notin DictKeys(cache1)]
    IN
    /\ calls' = calls + 1
    /\ UNCHANGED <<use_cache, cache_ttl, clock>>
    /\ UNCHANGED other_than_agent
    /\ IF use_cache /\ looked.found
       THEN \* cache hit
            /\ cache_hits' = cache_hits + 1
            /\ session_history' =
                 LastN(session_history \o <<message, cached_response.response>>, HistoryMax)
            /\ response_cache' = cache1
            /\ last_hit' = query_hash
            /\ call' = obs @@ [invoked |-> FALSE, stored_key |-> None, evicted |-> {},
                               result |-> [cached_response EXCEPT
                                             !.cached = TRUE,
                                             !.hits = cache_hits + 1,
                                             !.misses = cache_misses]]
            /\ UNCHANGED <<cache_misses, inserts>>
       ELSE LET misses1 == IF use_cache THEN cache_misses + 1 ELSE cache_misses
            IN
            /\ cache_misses' = misses1
            /\ UNCHANGED <<cache_hits, last_hit>>
            /\ IF outcome = "raise"
               THEN /\ response_cache' = cache1
                    /\ UNCHANGED <<session_history, inserts>>
                    /\ call' = obs @@ [invoked |-> TRUE, stored_key |-> None,
                                       evicted |-> {},
                                       result |-> [response |-> "error", success |-> FALSE,
                                                   cached |-> FALSE, hits |-> cache_hits,
                                                   misses |-> misses1]]
               ELSE LET history1 == LastN(session_history \o <<message, outcome>>, HistoryMax)
                        response_obj == [response |-> outcome, success |-> TRUE,
                                         cached |-> FALSE, hits |-> cache_hits,
                                         misses |-> misses1]
                        key2 == hash_query(message, SubSeq(history1, 1, Len(history1) - 2))
                        cache2 == update_cache(cache1, key2, response_obj, clock, inserts + 1)
                    IN
                    /\ session_history' = history1
                    /\ response_cache' = cache2
                    /\ inserts' = IF use_cache THEN inserts + 1 ELSE inserts
                    /\ call' = obs @@ [invoked |-> TRUE,
                                       stored_key |-> IF use_cache THEN key2 ELSE None,
                                       evicted |-> DictKeys(cache1) \ DictKeys(cache2),
                                       result |-> response_obj]

\* reset(): the response cache and its counters are not touched
reset ==
    /\ session_history' = <<>>
    /\ UNCHANGED <<response_cache, cache_hits, cache_misses, use_cache, cache_ttl,
                   clock, inserts, calls, last_hit, call, other_than_agent>>

clear_cache ==
    /\ response_cache' = <<>>
    /\ UNCHANGED <<session_history, cache_hits, cache_misses, use_cache, cache_ttl,
                   clock, inserts, calls, last_hit, call, other_than_agent>>

\* time passes between calls
Tick ==
    /\ clock < MaxTime
    /\ clock' = clock + 1
    /\ UNCHANGED <<session_history, response_cache, cache_hits, cache_misses,
                   use_cache, cache_ttl, inserts, calls, last_hit, call,
                   other_than_agent>>


(***************************************************************************)
(* QueryTranslator                                                         *)
(*                                                                         *)
(* A structured query is a Python dict: a function from the keys present   *)
(* to their values (lists; min_hours a number; the legacy keys rank and    *)
(* skill a string, "" for None).                                           *)
(***************************************************************************)
EmptyDict == [k \in {} |-> 0]

Has(d, k) == k \in DOMAIN d

\* one optional key
OptKey(k, values) == {EmptyDict} \cup {[x \in {k} |-> v] : v \in values}

\* what the language model may extract from an utterance
Extractions ==
    {l @@ r @@ s @@ a :
        l \in OptKey("locations", {<<>>, <<"Oslo">>}),
        r \in OptKey("ranks", {<<"Partner">>}),
        s \in OptKey("skills", {<<"Backend Developer">>}),
        a \in {EmptyDict,
                [weeks |-> <<3>>],
                [weeks |-> <<3>>, availability_status |-> <<"Available">>],
                [availability_status |-> <<"Available">>, min_hours |-> 20]}}

\* the reply of client.messages.create: it raises, it has no text block, it
\* carries a JSON object, or it is prose without JSON and without field
\* headers that may mention partners or the Nordics
LlmReplies ==
    {[kind |-> "raise", fields |-> EmptyDict, partner |-> FALSE, nordic |-> FALSE],
     [kind |-> "notext", fields |-> EmptyDict, partner |-> FALSE, nordic |-> FALSE]}
    \cup {[kind |-> "json", fields |-> e, partner |-> FALSE, nordic |-> FALSE] :
            e \in Extractions}
    \cup {[kind |-> "prose", fields |-> EmptyDict, partner |-> p, nordic |-> n] :
            p \in BOOLEAN, n \in BOOLEAN}

Queries ==
    {"What about Week 3?",
     "show me partners in nordics",
     "Senior consultants with python skills based in Oslo",
     "Partners in London available in week 1"}

\* contexts a caller may hold before the first turn: none, an earlier
\* translation, and one in the legacy singular-key format
InitialContexts ==
    {EmptyDict,
     [locations |-> <<"London">>, skills |-> <<"Frontend Developer">>,
      weeks |-> <<1>>, availability_status |-> <<"Unavailable">>, min_hours |-> 10],
     [location |-> <<"London">>, rank |-> "", skill |-> "Frontend Developer",
      availability |-> <<1>>]}

reference_terms ==
    {"them", "they", "these", "those", "that", "this",
     "he", "she", "his", "her", "their", "any"}

followup_starters ==
    {"what about", "how about", "and what about", "what if",
     "are there", "do they", "can you", "are any", "can any",
     "are they", "show me", "find me", "list all"}

availability_terms ==
    {"available", "unavailable", "partially available",
     "free", "busy", "booked", "scheduled", "week", "status"}

followup_phrases ==
    {"what about", "how about", "instead of", "rather than",
     "of them", "of those", "from them", "from those",
     "as well", "as well as", "in addition", "apart from"}

\* _is_followup_query (the query strings of the model carry no leading or
\* trailing blanks, so strip() leaves them as they are)
is_followup_query(query) ==
    LET query_lower == Lower(query)
        words == Words(query_lower)
    IN \/ (1 <= Len(words) /\ Len(words) <= 4)
       \/ ((\E term \in availability_terms : Contains(query_lower, term))
            /\ Len(words) <= 7)
       \/ (words # <<>> /\ words[1] \in reference_terms)
       \/ (\E starter \in followup_starters : StartsWith(query_lower, starter))
       \/ (words # <<>> /\ words[1] \in {"and", "or", "but", "also"})
       \/ (\E phrase \in followup_phrases : Contains(query_lower, phrase))

\* the verdict of _is_followup_query on each query of the model
FollowupVerdict == [query \in Queries |-> is_followup_query(query)]

\* _normalize_context
normalize_context(context) ==
    [locations |-> IF Has(context, "locations") THEN context.locations
                   ELSE IF Has(context, "location") THEN context.location
                   ELSE <<>>,
     skills    |-> IF Has(context, "skills") THEN context.skills
                   ELSE IF Has(context, "skill")
                        THEN (IF context.skill # "" THEN <<context.skill>> ELSE <<>>)
                   ELSE <<>>,
     ranks     |-> IF Has(context, "ranks") THEN context.ranks
                   ELSE IF Has(context, "rank")
                        THEN (IF context.rank # "" THEN <<context.rank>> ELSE <<>>)
                   ELSE <<>>,
     weeks     |-> IF Has(context, "weeks") THEN context.weeks
                   ELSE IF Has(context, "availability") THEN context.availability
                   ELSE <<>>]

\* _parse_response on a reply that has a text block
parse_response(reply) ==
    IF reply.kind = "json"
    THEN reply.fields
    ELSE (IF reply.nordic THEN [locations |-> <<"Nordics">>] ELSE EmptyDict)
         @@ (IF reply.partner THEN [ranks |-> <<"Partner">>] ELSE EmptyDict)

\* has_core_filters with all three of locations, ranks and skills required
has_core_filters_all(result) ==
    /\ Has(result, "locations") /\ result.locations # <<>>
    /\ Has(result, "ranks") /\ result.ranks # <<>>
    /\ Has(result, "skills") /\ result.skills # <<>>

\* translate, lines 111-114
has_core_filters(result) ==
    /\ Has(result, "locations") /\ result.locations # <<>>
    /\ \/ (Has(result, "ranks") /\ result.ranks # <<>>)
       \/ (Has(result, "skills") /\ result.skills # <<>>)

\* the refinement merge that leaves skills out
merge_context_no_skills(result, context) ==
    LET inherit == {f \in {"locations", "ranks"} :
                      /\ (~Has(result, f) \/ result[f] = <<>>)
                      /\ Has(context, f) /\ context[f] # <<>>}
    IN [f \in DOMAIN result \cup inherit |->
           IF f \in inherit THEN context[f] ELSE result[f]]

\* translate, lines 125-129: the refinement merge
merge_context(result, context) ==
    LET inherit == {f \in {"locations", "ranks", "skills"} :
                      /\ (~Has(result, f) \/ result[f] = <<>>)
                      /\ Has(context, f) /\ context[f] # <<>>}
    IN [f \in DOMAIN result \cup inherit |->
           IF f \in inherit THEN context[f] ELSE result[f]]

\* translate(query, context) given the verdict of _is_followup_query on the
\* query and the reply of the model; values are lists already, so the
\* isinstance checks of lines 136-146 leave the result as it is
translate(followup_verdict, context, reply) ==
    LET has_context == DOMAIN context # {}
        normalized  == IF has_context THEN normalize_context(context) ELSE context
        is_followup == has_context /\ followup_verdict
    IN IF reply.kind \in {"raise", "notext"}
       THEN [raised |-> TRUE, is_followup |-> is_followup, parsed |-> EmptyDict,
             result |-> EmptyDict]
       ELSE LET parsed == parse_response(reply)
            IN [raised |-> FALSE, is_followup |-> is_followup, parsed |-> parsed,
                result |-> IF is_followup /\ ~has_core_filters(parsed)
                           THEN merge_context(parsed, normalized)
                           ELSE parsed]

NoTranslation ==
    [query |-> "", context |-> EmptyDict, reply |-> None, raised |-> FALSE,
     is_followup |-> FALSE, parsed |-> EmptyDict, result |-> EmptyDict]

\* one turn of MasterAgent.process_message up to the translation: the
\* translation becomes the context of the next turn unless translate raised
Translate ==
    /\ turns < MaxTurns
    /\ turns' = turns + 1
    /\ \E query \in Queries :
        LET followup_verdict == FollowupVerdict[query]
        IN \E reply \in LlmReplies :
              LET out == translate(followup_verdict, last_query_context, reply)
              IN /\ translation' = [query |-> query, context |-> last_query_context,
                                    reply |-> reply, raised |-> out.raised,
                                    is_followup |-> out.is_followup,
                                    parsed |-> out.parsed,
                                    result |-> out.result]
                 /\ last_query_context' =
                       IF out.raised THEN last_query_context ELSE out.result
                 /\ UNCHANGED other_than_translator

TranslatorInit ==
    /\ last_query_context \in InitialContexts
    /\ translation = NoTranslation
    /\ turns = 0

TranslatorIdle ==
    /\ last_query_context = EmptyDict
    /\ translation = NoTranslation
    /\ turns = 0

(***************************************************************************)
(* FirebaseClient                                                          *)
(*                                                                         *)
(* An employee document carries the official name of its rank ("" when the *)
(* document has no rank data).  The availability collection maps an        *)
(* employee number to its document: whether it exists, and its week        *)
(* records.                                                                *)
(***************************************************************************)
EmployeePool ==
    <<[id |-> "d1", employee_number |-> "E1", name |-> "Ann", location |-> "London",
       rank |-> "Partner", skills |-> <<"Python", "Java">>],
      [id |-> "d2", employee_number |-> "E2", name |-> "Bo", location |-> "Oslo",
       rank |-> "Partner", skills |-> <<"Python">>],
      [id |-> "d3", employee_number |-> "E3", name |-> "Cy", location |-> "London",
       rank |-> "Analyst", skills |-> <<"Java", "Frontend Developer">>],
      [id |-> "d4", employee_number |-> "E4", name |-> "Di", location |-> "London",
       rank |-> "Associate Partner", skills |-> <<"python", "Java">>],
      [id |-> "d5", employee_number |-> "E5", name |-> "Ed", location |-> "Oslo",
       rank |-> "", skills |-> <<>>]>>

AvailabilityPool ==
    [E1 |-> [exists |-> TRUE,
             weeks |-> <<[week_number |-> 1, status |-> "Available", hours |-> 40],
                         [week_number |-> 2, status |-> "Partially Available", hours |-> 20]>>],
     E2 |-> [exists |-> TRUE,
             weeks |-> <<[week_number |-> 1, status |-> "Unavailable", hours |-> 0]>>],
     E3 |-> [exists |-> FALSE, weeks |-> <<>>],
     E4 |-> [exists |-> TRUE,
             weeks |-> <<[week_number |-> 2, status |-> "Available", hours |-> 40]>>],
     E5 |-> [exists |-> TRUE, weeks |-> <<>>]]

\* the employees collection holds any part of the pool, in pool order
Stores ==
    {SelectSeq(EmployeePool, LAMBDA e : e.id \in ids) :
        ids \in SUBSET {EmployeePool[i].id : i \in DOMAIN EmployeePool}}

\* the sequence of the records of S in ascending week order (one per week)
RECURSIVE SortedByWeek(_)
SortedByWeek(S) ==
    IF S = {} THEN <<>>
    ELSE LET first == CHOOSE r \in S : \A o \in S : r.week <= o.week
         IN <<first>> \o SortedByWeek(S \ {first})

\* _fetch_availability_batch: employee number -> week records, for the
\* employees that have an availability document
fetch_availability_batch(employee_numbers, weeks, avail) ==
    LET target_weeks == Range(weeks)
        all_weeks_data(e) ==
            {[week |-> w.week_number, status |-> w.status, notes |-> "",
              hours |-> w.hours] : w \in Range(avail[e].weeks)}
        missing(e) ==
            {[week |-> week_num, status |-> "Unavailable",
              notes |-> "No availability data found", hours |-> 0] :
                week_num \in target_weeks \ {w.week : w \in all_weeks_data(e)}}
        employee_availability(e) ==
            IF target_weeks # {}
            THEN {w \in all_weeks_data(e) \cup missing(e) : w.week \in target_weeks}
            ELSE all_weeks_data(e)
    IN [e \in {n \in Range(employee_numbers) : n # "" /\ avail[n].exists} |->
           SortedByWeek(employee_availability(e))]

skill_mapping ==
    [s \in {"frontend", "front-end", "front end", "ui", "backend", "back-end",
            "back end", "fullstack", "full-stack", "full stack", "product",
            "project", "agile", "scrum", "data", "cloud"} |->
        CASE s \in {"frontend", "front-end", "front end", "ui"} -> "Frontend Developer"
          [] s \in {"backend", "back-end", "back end"} -> "Backend Developer"
          [] s \in {"fullstack", "full-stack", "full stack"} -> "Full Stack Developer"
          [] s = "product" -> "Product Manager"
          [] s = "project" -> "Project Manager"
          [] s = "agile" -> "Agile Coach"
          [] s = "scrum" -> "Scrum Master"
          [] s = "data" -> "Data Engineer"
          [] s = "cloud" -> "Cloud Engineer"]

transform_skill(skill) ==
    IF Lower(skill) \in DOMAIN skill_mapping THEN skill_mapping[Lower(skill)] ELSE skill

\* the Firestore query: location 'in' and skills 'array_contains_any'
store_query(docs, locations, skills) ==
    LET transformed_skills == {transform_skill(skills[i]) : i \in DOMAIN skills}
    IN SelectSeq(docs, LAMBDA e :
          /\ (locations # <<>> => e.location \in Range(locations))
          /\ (skills # <<>> => Range(e.skills) \cap transformed_skills # {}))

\* the rank filter matching a requested rank anywhere inside the rank name
rank_filter_substring(employee_list, ranks) ==
    SelectSeq(employee_list, LAMBDA e :
        /\ e.rank # ""
        /\ \E i \in DOMAIN ranks : Contains(Lower(e.rank), Lower(ranks[i])))

\* post-query rank filter, lines 801-820
rank_filter(employee_list, ranks) ==
    SelectSeq(employee_list, LAMBDA e :
        /\ e.rank # ""
        /\ \E i \in DOMAIN ranks : Lower(ranks[i]) = Lower(e.rank))

\* looking_for_partner, line 824
looking_for_partner(ranks) ==
    ranks # <<>> /\ \E i \in DOMAIN ranks : Lower(ranks[i]) = "partner"

SentinelId == "special_case_partner_info"

\* the special case result, lines 848-868: its message names the requested
\* locations and the set of locations that hold a Partner
special_case_result(docs, locations) ==
    LET partner_list == SelectSeq(docs, LAMBDA e : e.rank # "" /\ Lower(e.rank) = "partner")
    IN IF partner_list = <<>> THEN <<>>
       ELSE <<[id |-> SentinelId, name |-> "Partner Information",
               special_case |-> TRUE,
               requested_locations |-> locations,
               partner_locations |-> {partner_list[i].location : i \in DOMAIN partner_list},
               sample_partners |->
                   [i \in 1..(IF Len(partner_list) < 3 THEN Len(partner_list) ELSE 3) |->
                       [name |-> partner_list[i].name,
                        location |-> partner_list[i].location]]]>>

\* the multi-skill filter keeping an employee that has any requested skill
has_all_skills_any(e, skills) ==
    \E i \in DOMAIN skills :
        Lower(skills[i]) \in {Lower(e.skills[j]) : j \in DOMAIN e.skills}

\* all_skills_match, lines 887-888
has_all_skills(e, skills) ==
    \A i \in DOMAIN skills :
        Lower(skills[i]) \in {Lower(e.skills[j]) : j \in DOMAIN e.skills}

\* the status check accepting "partially available" for every request that
\* names "available"
has_status_partial_always(employee_availability, availability_status) ==
    LET lowercase_statuses == {Lower(availability_status[i]) : i \in DOMAIN availability_status}
        accepting_partial == "available" \in lowercase_statuses
    IN \E i \in DOMAIN employee_availability :
          LET current_status == Lower(employee_availability[i].status)
          IN \/ current_status \in lowercase_statuses
             \/ (accepting_partial /\ current_status = "partially available")

\* status check of one employee, lines 913-947
has_status(employee_availability, availability_status) ==
    LET lowercase_statuses == {Lower(availability_status[i]) : i \in DOMAIN availability_status}
        looking_for_available == "available" \in lowercase_statuses
        accepting_partial ==
            looking_for_available
            /\ ~("partially available" \in lowercase_statuses \/ "partial" \in lowercase_statuses)
    IN \E i \in DOMAIN employee_availability :
          LET current_status == Lower(employee_availability[i].status)
          IN \/ current_status \in lowercase_statuses
             \/ (accepting_partial /\ current_status = "partially available")

\* the minimum hours check passing when some reported week has the hours
meets_min_hours_any(employee_availability, min_hours) ==
    \E i \in DOMAIN employee_availability : ~(employee_availability[i].hours < min_hours)

\* minimum hours check of one employee, lines 953-959
meets_min_hours(employee_availability, min_hours) ==
    \A i \in DOMAIN employee_availability : ~(employee_availability[i].hours < min_hours)

\* availability filter, lines 894-968
availability_filter(employee_list, avail, weeks, availability_status, min_hours) ==
    LET employee_numbers == [i \in DOMAIN employee_list |-> employee_list[i].employee_number]
        availability_data == fetch_availability_batch(employee_numbers, weeks, avail)
        meets_criteria(e) ==
            /\ e.employee_number # ""
            /\ e.employee_number \in DOMAIN availability_data
            /\ (availability_status # <<>> =>
                   has_status(availability_data[e.employee_number], availability_status))
            /\ (min_hours # 0 =>
                   meets_min_hours(availability_data[e.employee_number], min_hours))
        kept == SelectSeq(employee_list, meets_criteria)
    IN [i \in DOMAIN kept |->
           kept[i] @@ [availability |-> availability_data[kept[i].employee_number]]]

\* employee_list[start_idx:end_idx]
page(employee_list, limit, offset) ==
    LET total == Len(employee_list)
        start_idx == IF offset < total THEN offset ELSE total
        end_idx == IF start_idx + limit < total THEN start_idx + limit ELSE total
    IN SubSeq(employee_list, start_idx + 1, end_idx)

\* fetch_employees; store_fails stands for the Firestore client raising on
\* a query, which the outer except turns into an empty list
fetch_employees(docs, avail, store_fails, q) ==
    IF store_fails THEN <<>>
    ELSE
    LET queried == store_query(docs, q.locations, q.skills)
        ranked  == IF q.ranks # <<>> THEN rank_filter(queried, q.ranks) ELSE queried
        special_case_results ==
            IF ranked = <<>> /\ looking_for_partner(q.ranks) /\ q.locations # <<>>
            THEN special_case_result(docs, q.locations)
            ELSE <<>>
        skilled == IF Len(q.skills) > 1
                   THEN SelectSeq(ranked, LAMBDA e : has_all_skills(e, q.skills))
                   ELSE ranked
        availed == IF q.weeks # <<>> \/ q.availability_status # <<>> \/ q.min_hours # 0
                   THEN availability_filter(skilled, avail, q.weeks,
                                            q.availability_status, q.min_hours)
                   ELSE skilled
    IN IF ranked = <<>> /\ special_case_results # <<>>
       THEN special_case_results
       ELSE page(availed, q.limit, q.offset)

\* arguments of fetch_employees (min_hours 0 stands for None)
LocationArgs == {<<>>, <<"London">>, <<"Oslo">>}
RankArgs == {<<>>, <<"Partner">>, <<"Analyst">>, <<"partner", "Analyst">>}
SkillArgs == {<<>>, <<"python">>, <<"Python", "Java">>, <<"frontend", "Java">>}
AvailabilityArgs ==
    {[weeks |-> <<>>, availability_status |-> <<>>, min_hours |-> 0],
     [weeks |-> <<1, 2>>, availability_status |-> <<>>, min_hours |-> 0],
     [weeks |-> <<2>>, availability_status |-> <<"Available">>, min_hours |-> 0],
     [weeks |-> <<2>>, availability_status |-> <<"available", "Partial">>, min_hours |-> 0],
     [weeks |-> <<2>>, availability_status |-> <<"Available", "Partially Available">>,
      min_hours |-> 0],
     [weeks |-> <<1, 2>>, availability_status |-> <<>>, min_hours |-> 30],
     [weeks |-> <<1, 2>>, availability_status |-> <<>>, min_hours |-> 20]}
PageArgs == {[limit |-> 20, offset |-> 0], [limit |-> 1, offset |-> 1]}

FetchQueries ==
    {[locations |-> l, ranks |-> r, skills |-> s] @@ a @@ p :
        l \in LocationArgs, r \in RankArgs, s \in SkillArgs,
        a \in AvailabilityArgs, p \in PageArgs}

NoFetch == [op |-> "idle"]

\* a call of FirebaseClient.fetch_employees
FetchEmployees ==
    /\ fetch.op = "idle"
    /\ \E q \in FetchQueries, store_fails \in BOOLEAN :
          fetch' = [op |-> "fetch_employees", query |-> q, store_fails |-> store_fails,
                    result |-> fetch_employees(employees, availability, store_fails, q)]
    /\ UNCHANGED <<employees, availability, other_than_store>>

WeekArgs == {<<>>, <<1>>, <<2, 1>>, <<3>>}

\* a call of FirebaseClient._fetch_availability_batch
FetchAvailabilityBatch ==
    /\ fetch.op = "idle"
    /\ \E weeks \in WeekArgs :
          LET employee_numbers == [i \in DOMAIN employees |-> employees[i].employee_number]
          IN fetch' = [op |-> "fetch_availability_batch",
                       employee_numbers |-> employee_numbers, weeks |-> weeks,
                       result |-> fetch_availability_batch(employee_numbers, weeks,
                                                           availability)]
    /\ UNCHANGED <<employees, availability, other_than_store>>

\* the store's limit on the values of one array_contains_any filter
StoreAnyOfLimit == 10

\* the skills filter pushed to the store, lines 216-222
store_skills_filter(e, skills) ==
    IF Len(skills) = 1
    THEN skills[1] \in Range(e.skills)
    ELSE Range(e.skills) \cap Range(SubSeq(skills, 1,
             IF Len(skills) < StoreAnyOfLimit THEN Len(skills) ELSE StoreAnyOfLimit)) # {}

\* availability of one employee as query_resources reads it, lines 262-302
weeks_of(avail, emp_num, weeks) ==
    SortedByWeek({[week |-> w.week_number, status |-> w.status, notes |-> "",
                   hours |-> w.hours] :
                     w \in {x \in Range(avail[emp_num].weeks) :
                               x.week_number \in Range(weeks)}})

\* query_resources of a connected client (is_demo_mode false); store_fails
\* stands for the Firestore client raising, which the except of lines
\* 317-319 turns into a ValueError
query_resources(docs, avail, store_fails, filters) ==
    IF store_fails THEN [raised |-> TRUE, resources |-> <<>>]
    ELSE
    LET queried ==
            SelectSeq(docs, LAMBDA e :
                /\ (filters.locations # <<>> => e.location \in Range(filters.locations))
                /\ (filters.ranks # <<>> => e.rank \in Range(filters.ranks))
                /\ (filters.skills # <<>> => store_skills_filter(e, filters.skills)))
        employee_results ==
            SelectSeq(queried, LAMBDA e :
                Len(filters.skills) > 1 =>
                    Range(e.skills) \cap Range(filters.skills) # {})
        employee_numbers ==
            SelectSeq([i \in DOMAIN employee_results |-> employee_results[i].employee_number],
                      LAMBDA n : n # "")
        has_availability(e) ==
            /\ e.employee_number # ""
            /\ avail[e.employee_number].exists
            /\ weeks_of(avail, e.employee_number, filters.weeks) # <<>>
        filtered_results == SelectSeq(employee_results, has_availability)
    IN [raised |-> FALSE,
        resources |->
            IF filters.weeks # <<>> /\ employee_numbers # <<>>
            THEN [i \in DOMAIN filtered_results |->
                     filtered_results[i] @@
                     [availability |->
                         weeks_of(avail, filtered_results[i].employee_number, filters.weeks)]]
            ELSE employee_results]

\* eleven skill values, one more than the store takes
ElevenSkills ==
    <<"Go", "Rust", "C", "Ruby", "Scala", "Kotlin", "Swift", "PHP", "Perl", "Java", "Python">>

ResourceFilters ==
    {[locations |-> l, ranks |-> r, skills |-> s, weeks |-> w] :
        l \in {<<>>, <<"London">>},
        r \in {<<>>, <<"Partner">>},
        s \in {<<>>, <<"Python">>, <<"Python", "Java">>, ElevenSkills},
        w \in {<<>>, <<1>>, <<3>>}}

\* a call of FirebaseClient.query_resources
QueryResources ==
    /\ fetch.op = "idle"
    /\ \E filters \in ResourceFilters, store_fails \in BOOLEAN :
          LET out == query_resources(employees, availability, store_fails, filters)
          IN fetch' = [op |-> "query_resources", filters |-> filters,
                       store_fails |-> store_fails, raised |-> out.raised,
                       result |-> out.resources]
    /\ UNCHANGED <<employees, availability, other_than_store>>

\* the caller takes the result
FetchReturn ==
    /\ fetch.op # "idle"
    /\ fetch' = NoFetch
    /\ UNCHANGED <<employees, availability, other_than_store>>

StoreInit ==
    /\ employees \in Stores
    /\ availability = AvailabilityPool
    /\ fetch = NoFetch

StoreIdle ==
    /\ employees = <<>>
    /\ availability = AvailabilityPool
    /\ fetch = NoFetch
    /\ cached_results = <<>>
    /\ last_query = EmptyDict

(***************************************************************************)
(* ResourceFetcher                                                         *)
(*                                                                         *)
(* None and the empty list are both falsy for every test the code makes    *)
(* on a list argument; the model writes <<>> for both, 0 for a min_hours   *)
(* of None, and the empty dict for a last_query of None.                   *)
(***************************************************************************)
\* the locations of the database metadata (get_database_metadata of
\* langgraph_agent.py), against which the search_resources tool validates
metadata_locations ==
    {"Manchester", "London", "Oslo", "Stockholm", "Copenhagen", "Belfast", "Bristol"}

\* a variant that keeps the region name in front of its cities
expand_location_keep_region(location) ==
    LET location_lower == Lower(location)
    IN IF location = "" THEN <<>>
       ELSE IF location_lower \in {"nordics", "nordic", "nordic countries", "scandinavia"}
       THEN <<location, "Oslo", "Stockholm", "Copenhagen">>
       ELSE IF location_lower \in {"uk", "united kingdom", "britain"}
       THEN <<location, "London", "Manchester", "Belfast", "Bristol">>
       ELSE IF location_lower \in {"us", "usa", "united states", "america"}
       THEN <<location, "New York", "Chicago", "San Francisco">>
       ELSE <<location>>

\* fetch_resources, lines 69-79: one location, expanded when it names a region
expand_location(location) ==
    LET location_lower == Lower(location)
    IN IF location = "" THEN <<>>
       ELSE IF location_lower \in {"nordics", "nordic", "nordic countries", "scandinavia"}
       THEN <<"Oslo", "Stockholm", "Copenhagen">>
       ELSE IF location_lower \in {"uk", "united kingdom", "britain"}
       THEN <<"London", "Manchester", "Belfast", "Bristol">>
       ELSE IF location_lower \in {"us", "usa", "united states", "america"}
       THEN <<"New York", "Chicago", "San Francisco">>
       ELSE <<location>>

RECURSIVE expanded_locations(_)
expanded_locations(locations) ==
    IF locations = <<>> THEN <<>>
    ELSE expand_location(Head(locations)) \o expanded_locations(Tail(locations))

ContainsAny(s, subs) == \E x \in subs : Contains(s, x)

\* lines 93-96: a rank that is really a skill
misclassified_skill(rank) ==
    rank # "" /\ ContainsAny(Lower(rank), {"agile coach", "scrum master",
                                           "data engineer", "cloud engineer"})

\* lines 98-113: the database names of one requested rank
normalize_rank(rank) ==
    LET rank_lower == Lower(rank)
    IN IF Contains(rank_lower, "partner")
          /\ ~ContainsAny(rank_lower, {"associate", "consulting"})
       THEN <<"Partner">>
       ELSE IF ContainsAny(rank_lower, {"associate partner", "consulting director"})
       THEN <<"Associate Partner", "Consulting Director">>
       ELSE IF Contains(rank_lower, "management consultant")
       THEN <<"Management Consultant">>
       ELSE IF Contains(rank_lower, "principal") THEN <<"Principal Consultant">>
       ELSE IF Contains(rank_lower, "senior") THEN <<"Senior Consultant">>
       ELSE IF Contains(rank_lower, "consultant")
               /\ ~ContainsAny(rank_lower, {"senior", "principal", "management"})
       THEN <<"Consultant">>
       ELSE IF Contains(rank_lower, "analyst") THEN <<"Analyst">>
       ELSE <<rank>>

RECURSIVE normalized_ranks(_)
normalized_ranks(ranks) ==
    IF ranks = <<>> THEN <<>>
    ELSE (IF Head(ranks) = "" \/ misclassified_skill(Head(ranks)) THEN <<>>
          ELSE normalize_rank(Head(ranks)))
         \o normalized_ranks(Tail(ranks))

\* fetch_resources: the arguments it passes on, which it also keeps as
\* last_query
normalized_query(q) ==
    [locations |-> expanded_locations(q.locations),
     ranks |-> normalized_ranks(q.ranks),
     skills |-> q.skills \o SelectSeq(q.ranks, misclassified_skill),
     weeks |-> q.weeks,
     availability_status |-> q.availability_status,
     min_hours |-> q.min_hours]

DefaultPage == [limit |-> 20, offset |-> 0]

\* query dictionaries handed to fetch_resources
ResourceQueries ==
    {[locations |-> l, ranks |-> r, skills |-> s, weeks |-> <<>>,
      availability_status |-> <<>>, min_hours |-> 0] :
        l \in {<<>>, <<"London">>, <<"Nordics">>, <<"Madrid">>, <<"UK", "Oslo">>, <<"usa">>},
        r \in {<<>>, <<"partners">>, <<"Associate Partner">>, <<"Scrum Master", "analyst">>,
                <<"Managing Consultant">>},
        s \in {<<>>, <<"Python", "Java">>}}

\* normalized_query, tabulated over the queries of the model
NormalizedQuery == [q \in ResourceQueries |-> normalized_query(q)]

\* fetch_resources: fetch_employees returns a list whatever the store does,
\* so the handler of lines 151-159 is never entered and the result is built
\* by lines 142-150
fetch_resources(docs, avail, store_fails, q) ==
    LET passed == IF q \in ResourceQueries THEN NormalizedQuery[q]
                  ELSE normalized_query(q)
        found == fetch_employees(docs, avail, store_fails, passed @@ DefaultPage)
    IN [last_query |-> passed,
        cached_results |-> found,
        \* the caller's dictionary after the call: its skills list is the
        \* list object that line 95 appends to (a dictionary holds lists,
        \* an empty one written <<>>)
        query_dict |-> [q EXCEPT !.skills = passed.skills],
        result |-> [employees |-> found, total_count |-> Len(found)]]

\* a call of ResourceFetcher.fetch_resources(query_dict=q)
FetchResources ==
    /\ fetch.op = "idle"
    /\ \E q \in ResourceQueries, store_fails \in BOOLEAN :
          LET out == fetch_resources(employees, availability, store_fails, q)
          IN /\ last_query' = out.last_query
             /\ cached_results' = out.cached_results
             /\ fetch' = [op |-> "fetch_resources", query |-> q,
                          query_dict |-> out.query_dict,
                          store_fails |-> store_fails, result |-> out.result]
    /\ UNCHANGED <<employees, availability, agent_vars, translator_vars, resolution,
                   analyze>>

FetcherInit ==
    /\ cached_results = <<>>
    /\ last_query = EmptyDict

\* the lists list(set(values)) can return: the distinct values in any order
Orderings(values) ==
    LET S == Range(values)
    IN {f \in [1..Cardinality(S) -> S] : Range(f) = S}

\* _combine_params: the lists it can return
combine_params(original, follow_up) ==
    IF original = <<>> /\ follow_up = <<>> THEN {<<>>}
    ELSE IF original = <<>> THEN {follow_up}
    ELSE IF follow_up = <<>> THEN {original}
    ELSE Orderings(original \o follow_up)

\* filter_cached_results, lines 201-209: the parameter sets the follow-up can
\* be combined to
combined_queries(previous, follow_up) ==
    {[locations |-> l, ranks |-> r, skills |-> s, weeks |-> w,
      availability_status |-> a,
      min_hours |-> IF follow_up.min_hours # 0 THEN follow_up.min_hours
                    ELSE previous.min_hours] :
        l \in combine_params(previous.locations, follow_up.locations),
        r \in combine_params(previous.ranks, follow_up.ranks),
        s \in combine_params(previous.skills, follow_up.skills),
        w \in combine_params(previous.weeks, follow_up.weeks),
        a \in combine_params(previous.availability_status,
                             follow_up.availability_status)}

\* filter_cached_results: the outcomes of the fetch_resources call it ends in
filter_cached_results(docs, avail, store_fails, follow_up) ==
    IF cached_results = <<>> \/ last_query = EmptyDict
    THEN {fetch_resources(docs, avail, store_fails, follow_up)}
    ELSE {fetch_resources(docs, avail, store_fails, q) :
            q \in combined_queries(last_query, follow_up)}

\* first queries and follow-ups of a conversation
BaseQueries ==
    {[locations |-> l, ranks |-> r, skills |-> s, weeks |-> <<>>,
      availability_status |-> <<>>, min_hours |-> 0] :
        l \in {<<"London">>, <<"Madrid">>},
        r \in {<<>>, <<"Partner">>},
        s \in {<<>>, <<"Java">>}}

FollowUps ==
    {[locations |-> l, ranks |-> r, skills |-> s, weeks |-> <<>>,
      availability_status |-> <<>>, min_hours |-> 0] :
        l \in {<<>>, <<"Oslo">>},
        r \in {<<>>, <<"Analyst">>},
        s \in {<<>>, <<"Python">>}}

\* the first fetch_resources call of a conversation
FetchBaseResources ==
    /\ fetch.op = "idle"
    /\ last_query = EmptyDict
    /\ \E q \in BaseQueries, store_fails \in BOOLEAN :
          LET out == fetch_resources(employees, availability, store_fails, q)
          IN /\ last_query' = out.last_query
             /\ cached_results' = out.cached_results
             /\ fetch' = [op |-> "fetch_resources", query |-> q,
                          query_dict |-> out.query_dict,
                          store_fails |-> store_fails, result |-> out.result]
    /\ UNCHANGED <<employees, availability, agent_vars, translator_vars, resolution,
                   analyze>>

\* a call of ResourceFetcher.filter_cached_results with follow-up parameters
FilterCachedResults ==
    /\ fetch.op = "idle"
    /\ \E follow_up \in FollowUps, store_fails \in BOOLEAN :
          \E out \in filter_cached_results(employees, availability, store_fails, follow_up) :
             /\ last_query' = out.last_query
             /\ cached_results' = out.cached_results
             /\ fetch' = [op |-> "filter_cached_results", follow_up |-> follow_up,
                          previous_query |-> last_query,
                          previous_results |-> cached_results,
                          store_fails |-> store_fails, result |-> out.result]
    /\ UNCHANGED <<employees, availability, agent_vars, translator_vars, resolution,
                   analyze>>

(***************************************************************************)
(* Rank hierarchy                                                          *)
(*                                                                         *)
(* The ranks of a structured query are resolved by the language model; the *)
(* repository fixes what "above", "below" and "between" must resolve to in *)
(* the checks of test_rank_queries.py and in get_ranks_below of the query  *)
(* tools of tests/test_agent_tools.py.                                     *)
(***************************************************************************)
RANK_HIERARCHY ==
    <<"Partner", "Associate Partner", "Consulting Director", "Management Consultant",
      "Principal Consultant", "Senior Consultant", "Consultant", "Consultant Analyst",
      "Analyst">>

\* list.index
IndexOf(list, x) == CHOOSE i \in DOMAIN list : list[i] = x /\ \A j \in 1..(i - 1) : list[j] # x

\* list + [x] unless x is in it already
AppendNew(list, x) == IF x \in Range(list) THEN list ELSE Append(list, x)

\* check_ranks_above, lines 139-148: the ranks required above the threshold
expected_ranks_above(threshold_rank) ==
    LET threshold_index == IndexOf(RANK_HIERARCHY, threshold_rank)
        expected_ranks == SubSeq(RANK_HIERARCHY, 1, threshold_index - 1)
    IN IF threshold_rank = "Associate Partner"
       THEN AppendNew(expected_ranks, "Consulting Director")
       ELSE IF threshold_rank = "Consulting Director"
       THEN AppendNew(expected_ranks, "Associate Partner")
       ELSE expected_ranks

\* check_ranks_below, lines 193-203: the ranks required below the threshold
expected_ranks_below(threshold_rank) ==
    LET threshold_index == IndexOf(RANK_HIERARCHY, threshold_rank)
        expected_ranks == SubSeq(RANK_HIERARCHY, threshold_index + 1, Len(RANK_HIERARCHY))
    IN IF threshold_rank = "Associate Partner"
       THEN SelectSeq(expected_ranks, LAMBDA rank : rank # "Consulting Director")
       ELSE IF threshold_rank = "Consulting Director"
       THEN SelectSeq(expected_ranks, LAMBDA rank : rank # "Associate Partner")
       ELSE expected_ranks

\* check_ranks_between, lines 249-266: the ranks required between the two
expected_ranks_between(lower_rank, upper_rank) ==
    LET i == IndexOf(RANK_HIERARCHY, lower_rank)
        j == IndexOf(RANK_HIERARCHY, upper_rank)
        lower_index == IF i > j THEN j ELSE i
        upper_index == IF i > j THEN i ELSE j
        expected_ranks == SubSeq(RANK_HIERARCHY, lower_index + 1, upper_index - 1)
    IN IF "Associate Partner" \in Range(expected_ranks)
       THEN AppendNew(expected_ranks, "Consulting Director")
       ELSE IF "Consulting Director" \in Range(expected_ranks)
       THEN AppendNew(expected_ranks, "Associate Partner")
       ELSE expected_ranks

\* result["rank"] as the translator may deliver it: None, one rank name, or
\* a list of rank names
RankResults ==
    {[kind |-> "none", value |-> <<>>], [kind |-> "str", value |-> <<"Partner">>]}
    \cup {[kind |-> "list",
           value |-> SelectSeq(RANK_HIERARCHY, LAMBDA rank : rank \in chosen)] :
             chosen \in SUBSET Range(RANK_HIERARCHY)}

\* names handed to the checks and to get_ranks_below
RankNames ==
    Range(RANK_HIERARCHY) \cup {"Managing Consultant", "MC", "mc", "Director", ""}

\* the verdict of check_ranks_above
check_ranks_above(rank, threshold_rank) ==
    /\ rank.kind = "list"
    /\ threshold_rank \in Range(RANK_HIERARCHY)
    /\ Range(expected_ranks_above(threshold_rank)) \subseteq Range(rank.value)
    /\ ~(threshold_rank = "Consultant Analyst" /\ "Analyst" \in Range(rank.value))

\* the verdict of check_ranks_below
check_ranks_below(rank, threshold_rank) ==
    /\ rank.kind = "list"
    /\ threshold_rank \in Range(RANK_HIERARCHY)
    /\ Range(expected_ranks_below(threshold_rank)) \subseteq Range(rank.value)

\* the verdict of check_ranks_between
check_ranks_between(rank, lower_rank, upper_rank) ==
    /\ rank.kind = "list"
    /\ lower_rank \in Range(RANK_HIERARCHY)
    /\ upper_rank \in Range(RANK_HIERARCHY)
    /\ Range(expected_ranks_between(lower_rank, upper_rank)) \subseteq Range(rank.value)

NoResolution == [op |-> "idle"]

CheckRanksAbove ==
    /\ resolution.op = "idle"
    /\ \E rank \in RankResults, threshold_rank \in RankNames :
          resolution' =
              [op |-> "check_ranks_above", rank |-> rank, threshold_rank |-> threshold_rank,
               expected_ranks |->
                   IF threshold_rank \in Range(RANK_HIERARCHY)
                   THEN expected_ranks_above(threshold_rank) ELSE <<>>,
               passed |-> check_ranks_above(rank, threshold_rank)]
    /\ UNCHANGED other_than_ranks

CheckRanksBelow ==
    /\ resolution.op = "idle"
    /\ \E rank \in RankResults, threshold_rank \in RankNames :
          resolution' =
              [op |-> "check_ranks_below", rank |-> rank, threshold_rank |-> threshold_rank,
               expected_ranks |->
                   IF threshold_rank \in Range(RANK_HIERARCHY)
                   THEN expected_ranks_below(threshold_rank) ELSE <<>>,
               passed |-> check_ranks_below(rank, threshold_rank)]
    /\ UNCHANGED other_than_ranks

\* the translator results the between check is run on
BetweenResults ==
    {r \in RankResults : r.kind # "list" \/ Len(r.value) <= 1 \/ Len(r.value) >= 8}

CheckRanksBetween ==
    /\ resolution.op = "idle"
    /\ \E rank \in BetweenResults, lower_rank \in RankNames, upper_rank \in RankNames :
          resolution' =
              [op |-> "check_ranks_between", rank |-> rank,
               lower_rank |-> lower_rank, upper_rank |-> upper_rank,
               expected_ranks |->
                   IF {lower_rank, upper_rank} \subseteq Range(RANK_HIERARCHY)
                   THEN expected_ranks_between(lower_rank, upper_rank) ELSE <<>>,
               passed |-> check_ranks_between(rank, lower_rank, upper_rank)]
    /\ UNCHANGED other_than_ranks

\* RANK_HIERARCHY of tests/test_agent_tools.py: rank name -> level, and its
\* keys in insertion order
MOCK_RANK_HIERARCHY_KEYS ==
    <<"Partner", "Associate Partner", "Consulting Director", "Managing Consultant",
      "Principal Consultant", "Senior Consultant", "Consultant", "Consultant Analyst",
      "Analyst">>

MOCK_RANK_HIERARCHY ==
    [r \in Range(MOCK_RANK_HIERARCHY_KEYS) |->
        CASE r = "Partner" -> 1
          [] r \in {"Associate Partner", "Consulting Director"} -> 2
          [] r = "Managing Consultant" -> 3
          [] r = "Principal Consultant" -> 4
          [] r = "Senior Consultant" -> 5
          [] r = "Consultant" -> 6
          [] r = "Consultant Analyst" -> 7
          [] r = "Analyst" -> 8]

\* sorted(list, key=level): a stable sort by level
RECURSIVE SortedByLevel(_, _)
SortedByLevel(list, level) ==
    IF level > 8 THEN <<>>
    ELSE SelectSeq(list, LAMBDA r : MOCK_RANK_HIERARCHY[r] = level)
         \o SortedByLevel(list, level + 1)

\* get_ranks_below that keeps the ranks at the level of the given rank
get_ranks_below_inclusive(rank) ==
    LET is_mc == Lower(rank) = "mc" \/ Lower(rank) = "managing consultant"
        name == IF is_mc THEN "Managing Consultant" ELSE rank
    IN IF ~is_mc /\ rank \notin DOMAIN MOCK_RANK_HIERARCHY THEN <<>>
       ELSE LET target_level == MOCK_RANK_HIERARCHY[name]
            IN SortedByLevel(SelectSeq(MOCK_RANK_HIERARCHY_KEYS,
                                 LAMBDA r : MOCK_RANK_HIERARCHY[r] >= target_level), 1)

\* MockResourceQueryTools.get_ranks_below
get_ranks_below(rank) ==
    LET is_mc == Lower(rank) = "mc" \/ Lower(rank) = "managing consultant"
        name == IF is_mc THEN "Managing Consultant" ELSE rank
    IN IF ~is_mc /\ rank \notin DOMAIN MOCK_RANK_HIERARCHY THEN <<>>
       ELSE LET target_level == MOCK_RANK_HIERARCHY[name]
            IN SortedByLevel(SelectSeq(MOCK_RANK_HIERARCHY_KEYS,
                                 LAMBDA r : MOCK_RANK_HIERARCHY[r] > target_level), 1)

GetRanksBelow ==
    /\ resolution.op = "idle"
    /\ \E rank \in RankNames \cup {"Management Consultant", "partner", "managing consultant"} :
          resolution' = [op |-> "get_ranks_below", rank |-> rank,
                         result |-> get_ranks_below(rank)]
    /\ UNCHANGED other_than_ranks

ResolutionReturn ==
    /\ resolution.op # "idle"
    /\ resolution' = NoResolution
    /\ UNCHANGED other_than_ranks

RanksIdle == resolution = NoResolution

(***************************************************************************)
(* analyze_query                                                           *)
(*                                                                         *)
(* The first node of the ReActAgentGraph workflow asks the language model  *)
(* for an analysis of the query and retries when the model call raises or  *)
(* its response cannot be parsed.  Each pass of the retry loop is a step.  *)
(***************************************************************************)
max_retries == 5

\* what one model invocation can come to
AttemptOutcomes == {"invoke_raises", "unparsable", "parsed"}

NoAnalysis == [pc |-> "idle"]

\* the `attempt < max_retries` test that would retry after the last attempt too
retries_left_after_last(attempt) == attempt < max_retries

\* lines 295 and 302: attempt < max_retries - 1
retries_left(attempt) == attempt < max_retries - 1

\* one pass of the loop of lines 224-305 with the given outcome of the
\* model invocation; line 307 returns when the loop runs out of attempts
analyze_attempt(a, outcome) ==
    LET base == [a EXCEPT !.metadata = "loaded",
                          !.invocations = @ + 1,
                          !.outcomes = Append(@, outcome)]
    IN IF outcome = "parsed"
       THEN [base EXCEPT !.analysis = "parsed", !.pc = "returned"]
       ELSE IF retries_left(a.attempt)
       THEN [base EXCEPT !.attempt = @ + 1,
                         !.pc = IF a.attempt + 1 < max_retries THEN "running"
                                ELSE "returned"]
       ELSE [base EXCEPT !.error = IF outcome = "unparsable"
                                   THEN "Failed to analyze query"
                                   ELSE "Error in query analysis",
                         !.pc = "returned"]

\* analyze_query is entered with an AgentState that may carry the analysis,
\* error and metadata of earlier nodes
AnalyzeQuery ==
    /\ analyze.pc = "idle"
    /\ \E analysis \in {None, "previous"}, error \in {None, "previous"},
          metadata \in {None, "loaded"} :
          analyze' = [pc |-> "running", attempt |-> 0, invocations |-> 0,
                      outcomes |-> <<>>, analysis |-> analysis, error |-> error,
                      metadata |-> metadata]
    /\ UNCHANGED other_than_analyze

AnalyzeAttempt ==
    /\ analyze.pc = "running"
    /\ \E outcome \in AttemptOutcomes : analyze' = analyze_attempt(analyze, outcome)
    /\ UNCHANGED other_than_analyze

AnalyzeReturn ==
    /\ analyze.pc = "returned"
    /\ analyze' = NoAnalysis
    /\ UNCHANGED other_than_analyze

AnalyzeIdle == analyze = NoAnalysis

(***************************************************************************)
(* Initial states and specifications                                       *)
(***************************************************************************)
AgentInit ==
    /\ session_history = <<>>
    /\ response_cache = <<>>
    /\ cache_hits = 0
    /\ cache_misses = 0
    /\ use_cache \in BOOLEAN
    /\ cache_ttl \in CacheTtls
    /\ clock = 0
    /\ inserts = 0
    /\ calls = 0
    /\ last_hit = None
    /\ call = NoCall

ProcessMessage ==
    /\ calls < MaxCalls
    /\ \E message \in Messages, outcome \in Responses \cup {"raise"} :
          process_message(message, outcome)

Reset == session_history # <<>> /\ reset

ClearCache == response_cache # <<>> /\ clear_cache

AgentIdle ==
    /\ AgentInit
    /\ use_cache = TRUE
    /\ cache_ttl = 1

Init == AgentInit /\ TranslatorIdle /\ StoreIdle /\ RanksIdle /\ AnalyzeIdle

Next == ProcessMessage \/ Reset \/ ClearCache \/ Tick

Spec == Init /\ [][Next]_vars

(***************************************************************************)
(* A session that fills the response cache: a client sending a new         *)
(* message on every turn and, once the cache is nearly full, also          *)
(* resetting the conversation and repeating its first messages.            *)
(***************************************************************************)
Digit(d) == SubSeq("0123456789", d + 1, d + 1)

RECURSIVE NumStr(_)
NumStr(n) == IF n < 10 THEN Digit(n) ELSE NumStr(n \div 10) \o Digit(n % 10)

FifoBusy == CacheMaxEntries - 1

FifoInit ==
    /\ AgentInit
    /\ TranslatorIdle
    /\ StoreIdle
    /\ RanksIdle /\ AnalyzeIdle
    /\ use_cache = TRUE
    /\ cache_ttl = 2

FifoFresh ==
    /\ calls < MaxFifoCalls
    /\ process_message(NumStr(calls + 1), "r")

FifoRepeat ==
    /\ calls < MaxFifoCalls
    /\ Len(response_cache) >= FifoBusy
    /\ \E n \in 1..2 : process_message(NumStr(n), "r")

FifoReset ==
    /\ Len(response_cache) >= FifoBusy
    /\ Reset

FifoNext == FifoFresh \/ FifoRepeat \/ FifoReset

SpecFifo == FifoInit /\ [][FifoNext]_vars

(***************************************************************************)
(* Conversations through QueryTranslator.translate                         *)
(***************************************************************************)
InitTranslate == AgentIdle /\ TranslatorInit /\ StoreIdle /\ RanksIdle /\ AnalyzeIdle

\* FirebaseClient over any store
InitFetch == AgentIdle /\ TranslatorIdle /\ StoreInit /\ FetcherInit /\ RanksIdle /\ AnalyzeIdle

NextFetch == FetchEmployees \/ FetchAvailabilityBatch \/ QueryResources \/ FetchReturn

SpecFetch == InitFetch /\ [][NextFetch]_vars

\* ResourceFetcher over FirebaseClient
NextResources == FetchResources \/ FetchReturn

SpecResources == InitFetch /\ [][NextResources]_vars

\* a first query and its follow-ups through ResourceFetcher
FollowUpStores == {docs \in Stores : Len(docs) <= 3}

InitFollowUp ==
    /\ InitFetch
    /\ employees \in FollowUpStores

NextFollowUp == FetchBaseResources \/ FilterCachedResults \/ FetchReturn

SpecFollowUp == InitFollowUp /\ [][NextFollowUp]_vars

\* analyze_query calls; the model invocation of a running call returns or
\* raises, so a running call keeps taking its steps
InitAnalyze == AgentIdle /\ TranslatorIdle /\ StoreIdle /\ RanksIdle /\ AnalyzeIdle

NextAnalyze == AnalyzeQuery \/ AnalyzeAttempt \/ AnalyzeReturn

SpecAnalyze == InitAnalyze /\ [][NextAnalyze]_vars

SpecAnalyzeLive == SpecAnalyze /\ WF_vars(AnalyzeAttempt)

\* rank resolutions and their checks
InitRanks == AgentIdle /\ TranslatorIdle /\ StoreIdle /\ RanksIdle /\ AnalyzeIdle

NextRanks ==
    CheckRanksAbove \/ CheckRanksBelow \/ CheckRanksBetween \/ GetRanksBelow
    \/ ResolutionReturn

SpecRanks == InitRanks /\ [][NextRanks]_vars

NextTranslate == Translate

SpecTranslate == InitTranslate /\ [][NextTranslate]_vars

(***************************************************************************)
(* Claims about the response cache                                         *)
(***************************************************************************)
CallHit == ~call.invoked /\ call.result.cached
                        /\ call.result.response = call.stored.response

CallMiss == call.invoked /\ call.deleted /\ ~call.result.cached

FifoEviction ==
    (/\ inserts' = inserts + 1
     /\ Len(response_cache) = CacheMaxEntries
     /\ call'.key \notin DictKeys(response_cache))
    => /\ Len(response_cache') = CacheMaxEntries
       /\ \E e \in Range(response_cache) :
            /\ \A f \in Range(response_cache) : e.ins <= f.ins
            /\ call'.evicted = {e.key}
            /\ \E n \in Range(response_cache') :
                 /\ n.key = call'.stored_key
                 /\ Range(response_cache') = (Range(response_cache) \ {e}) \cup {n}

\* C2: the response cache never holds more than 100 entries, and an insert
\* that takes it past 100 removes exactly one entry, the earliest inserted
\* of those present, however recently that entry was read.
C2_FifoBound ==
    /\ [](Len(response_cache) <= CacheMaxEntries)
    /\ [][FifoEviction]_vars

\* the entry evicted by the last call is the one that was read most recently
C2_Witness ==
    /\ Len(response_cache) = CacheMaxEntries
    /\ call.evicted # {}
    /\ call.evicted = {last_hit}

(***************************************************************************)
(* Claims about QueryTranslator.translate                                  *)
(***************************************************************************)
QueryFields ==
    {"locations", "ranks", "skills", "weeks", "availability_status", "min_hours"}

\* the value of field f counts as not given
Falsy(f, v) == IF f = "min_hours" THEN v = 0 ELSE v = <<>>

NotSupplied(d, f) == ~Has(d, f) \/ Falsy(f, d[f])

Supplied(d, f) == Has(d, f) /\ ~Falsy(f, d[f])

\* the extraction carries locations together with ranks or skills
SuppliesCore(d) ==
    Supplied(d, "locations") /\ (Supplied(d, "ranks") \/ Supplied(d, "skills"))

\* the last call merged a follow-up with its prior query
MergedCall ==
    /\ translation.is_followup
    /\ ~translation.raised
    /\ ~SuppliesCore(translation.parsed)

KeepsPrior(f) ==
    (NotSupplied(translation.parsed, f) /\ Supplied(translation.context, f))
    => (Has(translation.result, f)
        /\ translation.result[f] = translation.context[f])

KeepsExtracted(f) ==
    /\ Has(translation.result, f) <=> Has(translation.parsed, f)
    /\ Has(translation.parsed, f) => translation.result[f] = translation.parsed[f]

C4_WeeksUnion ==
    (/\ MergedCall
     /\ Supplied(translation.parsed, "weeks")
     /\ Supplied(translation.context, "weeks"))
    => /\ Has(translation.result, "weeks")
       /\ Range(translation.result.weeks)
            = Range(translation.context.weeks) \cup Range(translation.parsed.weeks)

\* contexts that make a call a follow-up
PriorContexts == InitialContexts \ {EmptyDict}

\* C5: a follow-up whose extraction carries locations together with ranks
\* or skills yields the extraction alone, the same for every prior context.
C5_NewQueryDiscardsContext ==
    (/\ translation.is_followup
     /\ ~translation.raised
     /\ SuppliesCore(translation.parsed))
    => /\ translation.result = translation.parsed
       /\ \A other \in PriorContexts :
            translate(FollowupVerdict[translation.query], other,
                      translation.reply).result = translation.result

C5_Witness ==
    /\ translation.is_followup
    /\ ~translation.raised
    /\ SuppliesCore(translation.parsed)
    /\ ~Has(translation.parsed, "skills")
    /\ Supplied(translation.context, "skills")
    /\ Supplied(translation.context, "locations")
    /\ translation.context.locations # translation.result.locations

\* C6: translate never raises to its caller.
C6_NeverRaises == ~translation.raised

(***************************************************************************)
(* FirebaseClient and ResourceFetcher claims                               *)
(***************************************************************************)
StoredWeeks(e) == {w.week_number : w \in Range(availability[e].weeks)}

\* C7: for an employee whose availability is looked up for requested weeks,
\* every requested week without a stored record is reported with status
\* "Unknown", never "Unavailable"
C7_MissingWeekUnknown ==
    fetch.op = "fetch_availability_batch" =>
        \A e \in DOMAIN fetch.result :
            \A w \in Range(fetch.weeks) \ StoredWeeks(e) :
                /\ \E i \in DOMAIN fetch.result[e] : fetch.result[e][i].week = w
                /\ \A i \in DOMAIN fetch.result[e] :
                      fetch.result[e][i].week = w => fetch.result[e][i].status = "Unknown"

\* C8: when the document store raises during the lookup, the result of
\* fetch_resources carries an error, so it differs from the result of a
\* lookup that matched nobody
C8_StoreFailureDistinct ==
    (fetch.op = "fetch_resources" /\ fetch.store_fails) =>
        "error" \in DOMAIN fetch.result

IsSentinel(r) == r.id = SentinelId

HoldsSkill(e, skill) == \E j \in DOMAIN e.skills : Lower(e.skills[j]) = Lower(skill)

\* C9: for a query with two or more requested skills, every employee that
\* fetch_employees returns holds every requested skill (compared without
\* regard to case)
C9_AllOfSkills ==
    (fetch.op = "fetch_employees" /\ Len(fetch.query.skills) >= 2) =>
        \A i \in DOMAIN fetch.result :
            ~IsSentinel(fetch.result[i]) =>
                \A k \in DOMAIN fetch.query.skills :
                    HoldsSkill(fetch.result[i], fetch.query.skills[k])

\* a two-skill query with no other filter returned an employee while the
\* store holds another one with only one of the two skills, not returned
C9_Witness ==
    /\ fetch.op = "fetch_employees"
    /\ ~fetch.store_fails
    /\ fetch.query.skills = <<"Python", "Java">>
    /\ fetch.query.locations = <<>> /\ fetch.query.ranks = <<>>
    /\ fetch.query.weeks = <<>> /\ fetch.query.availability_status = <<>>
    /\ fetch.query.min_hours = 0 /\ fetch.query.limit = 20
    /\ fetch.result # <<>>
    /\ \E e \in Range(employees) :
          /\ HoldsSkill(e, "Python") /\ ~HoldsSkill(e, "Java")
          /\ \A i \in DOMAIN fetch.result : fetch.result[i].id # e.id

RankIs(e, rank) == e.rank # "" /\ Lower(e.rank) = Lower(rank)

\* the employees a query matches before availability: the right location,
\* one of the requested skills under its database name, one of the ranks
NarrowMatches(q) ==
    {e \in Range(employees) :
        /\ (q.locations # <<>> => e.location \in Range(q.locations))
        /\ (q.skills # <<>> =>
               \E k \in DOMAIN q.skills, j \in DOMAIN e.skills :
                   e.skills[j] = transform_skill(q.skills[k]))
        /\ (q.ranks # <<>> => \E k \in DOMAIN q.ranks : RankIs(e, q.ranks[k]))}

\* the same search with the location constraint dropped
BroadMatches(q) == NarrowMatches([q EXCEPT !.locations = <<>>])

OnlySentinel(result) == Len(result) = 1 /\ IsSentinel(result[1])

NoSentinel(result) == \A i \in DOMAIN result : ~IsSentinel(result[i])

\* C10: the sentinel alone is returned exactly when rank and location are
\* constrained, the query matched nobody, the rank constraint
\* is Partner alone, and the same rank search without the location is
\* non-empty; otherwise no sentinel is returned
C10_AsStated ==
    fetch.op = "fetch_employees" =>
        LET q == fetch.query
            applies ==
                /\ q.ranks # <<>> /\ q.locations # <<>>
                /\ NarrowMatches(q) = {}
                /\ \A k \in DOMAIN q.ranks : Lower(q.ranks[k]) = "partner"
                /\ BroadMatches(q) # {}
        IN IF applies THEN OnlySentinel(fetch.result) ELSE NoSentinel(fetch.result)

\* C11: with a rank constraint, every employee that fetch_employees returns
\* has a rank, and its name equals one of the requested ranks as a whole
\* string without regard to case
C11_RankEquality ==
    (fetch.op = "fetch_employees" /\ fetch.query.ranks # <<>>) =>
        \A i \in DOMAIN fetch.result :
            ~IsSentinel(fetch.result[i]) =>
                /\ fetch.result[i].rank # ""
                /\ \E k \in DOMAIN fetch.query.ranks :
                      Lower(fetch.result[i].rank) = Lower(fetch.query.ranks[k])

\* a search for "partner" and "Analyst" alone returned a Partner while the
\* store holds an Associate Partner and an employee without rank, neither
\* returned
C11_Witness ==
    /\ fetch.op = "fetch_employees"
    /\ ~fetch.store_fails
    /\ fetch.query.ranks = <<"partner", "Analyst">>
    /\ fetch.query.locations = <<>> /\ fetch.query.skills = <<>>
    /\ fetch.query.weeks = <<>> /\ fetch.query.availability_status = <<>>
    /\ fetch.query.min_hours = 0 /\ fetch.query.limit = 20
    /\ \E i \in DOMAIN fetch.result : fetch.result[i].rank = "Partner"
    /\ \E e \in Range(employees) :
          /\ e.rank = "Associate Partner"
          /\ \A i \in DOMAIN fetch.result : fetch.result[i].id # e.id
    /\ \E e \in Range(employees) :
          /\ e.rank = ""
          /\ \A i \in DOMAIN fetch.result : fetch.result[i].id # e.id

Requested(statuses, name) == \E k \in DOMAIN statuses : Lower(statuses[k]) = name

\* a week status matches a request when it is one of the requested statuses
\* or, being "Partially Available", when "Available" is requested and
\* neither "Partial" nor "Partially Available" is
StatusMatches(status, statuses) ==
    \/ Requested(statuses, Lower(status))
    \/ /\ Lower(status) = "partially available"
       /\ Requested(statuses, "available")
       /\ ~Requested(statuses, "partial")
       /\ ~Requested(statuses, "partially available")

OnlyAvailabilityFilter(q) ==
    /\ q.locations = <<>> /\ q.ranks = <<>> /\ q.skills = <<>>
    /\ q.limit = 20 /\ q.offset = 0

Returned(e) == \E i \in DOMAIN fetch.result : fetch.result[i].id = e.id

\* C12: under the status filter a "Partially Available" week counts for a
\* request of "Available" if and only if the request names neither
\* "Partial" nor "Partially Available"; otherwise "Available" matches only
\* weeks that are exactly "Available".  Every returned employee has a
\* reported week whose status matches in that sense, and with no other
\* filter every stored employee with such a week among the requested ones
\* is returned.
C12_PartialCountsAsAvailable ==
    (/\ fetch.op = "fetch_employees" /\ ~fetch.store_fails
     /\ fetch.query.availability_status # <<>> /\ fetch.query.min_hours = 0) =>
        LET q == fetch.query
        IN /\ \A i \in DOMAIN fetch.result :
                 ~IsSentinel(fetch.result[i]) =>
                     \E j \in DOMAIN fetch.result[i].availability :
                         StatusMatches(fetch.result[i].availability[j].status,
                                       q.availability_status)
           /\ OnlyAvailabilityFilter(q) =>
                 \A e \in Range(employees) :
                     (/\ availability[e.employee_number].exists
                      /\ \E w \in Range(availability[e.employee_number].weeks) :
                            /\ w.week_number \in Range(q.weeks)
                            /\ StatusMatches(w.status, q.availability_status))
                     => Returned(e)

\* "available" and "Partial" were requested for week 2: the employee whose
\* week 2 is "Partially Available" is left out, the one whose week 2 is
\* "Available" is returned
C12_Witness ==
    /\ fetch.op = "fetch_employees" /\ ~fetch.store_fails
    /\ fetch.query.availability_status = <<"available", "Partial">>
    /\ fetch.query.weeks = <<2>>
    /\ OnlyAvailabilityFilter(fetch.query)
    /\ \E e \in Range(employees) :
          /\ ~Returned(e)
          /\ \E w \in Range(availability[e.employee_number].weeks) :
                w.week_number = 2 /\ w.status = "Partially Available"
    /\ \E e \in Range(employees) :
          /\ Returned(e)
          /\ \E w \in Range(availability[e.employee_number].weeks) :
                w.week_number = 2 /\ w.status = "Available"

\* C13: with min_hours, every returned employee has, for each requested
\* week, a stored record with at least min_hours hours; a requested week
\* below the threshold or without stored record excludes the employee
C13_MinHoursEveryWeek ==
    (fetch.op = "fetch_employees" /\ fetch.query.min_hours # 0) =>
        \A i \in DOMAIN fetch.result :
            ~IsSentinel(fetch.result[i]) =>
                \A week \in Range(fetch.query.weeks) :
                    \E w \in Range(availability[fetch.result[i].employee_number].weeks) :
                        w.week_number = week /\ w.hours >= fetch.query.min_hours

\* 20 hours were asked for weeks 1 and 2: the employee with 40 and 20 hours
\* is returned, the one with 40 hours in week 2 and no record for week 1 is
\* left out
C13_Witness ==
    /\ fetch.op = "fetch_employees" /\ ~fetch.store_fails
    /\ fetch.query.min_hours = 20 /\ fetch.query.weeks = <<1, 2>>
    /\ OnlyAvailabilityFilter(fetch.query)
    /\ \E e \in Range(employees) :
          /\ Returned(e)
          /\ \E w \in Range(availability[e.employee_number].weeks) :
                w.week_number = 2 /\ w.hours = 20
    /\ \E e \in Range(employees) :
          /\ ~Returned(e)
          /\ availability[e.employee_number].exists
          /\ \E w \in Range(availability[e.employee_number].weeks) :
                w.week_number = 2 /\ w.hours = 40
          /\ \A w \in Range(availability[e.employee_number].weeks) : w.week_number # 1

\* the employees an any-of filter over all requested skills selects, with
\* the other filters of query_resources
UnboundedMatches(filters) ==
    {e \in Range(employees) :
        /\ (filters.locations # <<>> => e.location \in Range(filters.locations))
        /\ (filters.ranks # <<>> => e.rank \in Range(filters.ranks))
        /\ Range(e.skills) \cap Range(filters.skills) # {}
        /\ (filters.weeks # <<>> =>
               /\ availability[e.employee_number].exists
               /\ \E w \in Range(availability[e.employee_number].weeks) :
                     w.week_number \in Range(filters.weeks))}

\* C14: with more requested skills than the store's any-of limit,
\* query_resources returns the employees that an any-of filter over all the
\* requested skills selects, no fewer and no more
C14_TransparentSkillLimit ==
    (/\ fetch.op = "query_resources" /\ ~fetch.raised
     /\ Len(fetch.filters.skills) > StoreAnyOfLimit) =>
        {fetch.result[i].id : i \in DOMAIN fetch.result}
            = {e.id : e \in UnboundedMatches(fetch.filters)}

(***************************************************************************)
(* Rank hierarchy claims                                                   *)
(***************************************************************************)
\* the level of a rank of RANK_HIERARCHY: its position, Associate Partner
\* and Consulting Director sharing one
Level(rank) ==
    LET i == IndexOf(RANK_HIERARCHY, rank) IN IF i <= 2 THEN i ELSE i - 1

\* C15: for every rank X of the hierarchy the ranks resolved as "above X"
\* are strictly senior to X: never X, never a rank below X, never the rank
\* that shares X's level
C15_AboveStrictlySenior ==
    (/\ resolution.op = "check_ranks_above"
     /\ resolution.threshold_rank \in Range(RANK_HIERARCHY)) =>
        \A i \in DOMAIN resolution.expected_ranks :
            Level(resolution.expected_ranks[i]) < Level(resolution.threshold_rank)

MockNamed(rank) == rank \in DOMAIN MOCK_RANK_HIERARCHY

StrictlyBelow(result, name) ==
    /\ Range(result) = {r \in DOMAIN MOCK_RANK_HIERARCHY :
                           MOCK_RANK_HIERARCHY[r] > MOCK_RANK_HIERARCHY[name]}
    /\ Cardinality(Range(result)) = Len(result)
    /\ \A i, j \in DOMAIN result :
          i < j => MOCK_RANK_HIERARCHY[result[i]] <= MOCK_RANK_HIERARCHY[result[j]]

\* C16 as stated: for a rank X of the hierarchy get_ranks_below(X) is
\* exactly the ranks of a level strictly below X's, most senior first, and
\* for any name that is not in the hierarchy it is the empty list
C16_AsStated ==
    resolution.op = "get_ranks_below" =>
        IF MockNamed(resolution.rank)
        THEN StrictlyBelow(resolution.result, resolution.rank)
        ELSE resolution.result = <<>>

MockAlias(rank) == Lower(rank) \in {"mc", "managing consultant"}

\* C16: for a rank X of the hierarchy get_ranks_below(X) is exactly the
\* ranks of a level strictly below X's, most senior first; "mc" and
\* "managing consultant" in any case stand for Managing Consultant; for
\* any other name it is the empty list
C16_RanksBelow ==
    resolution.op = "get_ranks_below" =>
        IF MockAlias(resolution.rank)
        THEN StrictlyBelow(resolution.result, "Managing Consultant")
        ELSE IF MockNamed(resolution.rank)
        THEN StrictlyBelow(resolution.result, resolution.rank)
        ELSE resolution.result = <<>>

\* below Associate Partner: everything from Managing Consultant down, and
\* not Consulting Director
C16_Witness ==
    /\ resolution.op = "get_ranks_below"
    /\ resolution.rank = "Associate Partner"
    /\ Len(resolution.result) = 6
    /\ resolution.result[1] = "Managing Consultant"
    /\ resolution.result[6] = "Analyst"
    /\ "Consulting Director" \notin Range(resolution.result)

\* C17: for two ranks X and Y of the hierarchy the ranks resolved as
\* "between X and Y" are the same in either order and are exactly the ranks
\* whose level lies strictly between the two levels: never X, Y, or a rank
\* sharing a level with X or Y
C17_BetweenStrict ==
    (/\ resolution.op = "check_ranks_between"
     /\ resolution.lower_rank \in Range(RANK_HIERARCHY)
     /\ resolution.upper_rank \in Range(RANK_HIERARCHY)) =>
        LET x == Level(resolution.lower_rank)
            y == Level(resolution.upper_rank)
        IN /\ resolution.expected_ranks
                  = expected_ranks_between(resolution.upper_rank, resolution.lower_rank)
           /\ Range(resolution.expected_ranks)
                  = {r \in Range(RANK_HIERARCHY) :
                        \/ (x < Level(r) /\ Level(r) < y)
                        \/ (y < Level(r) /\ Level(r) < x)}

\* ---------------------------------------------------------------
\* Follow-up classification claims
\* ---------------------------------------------------------------

\* words that name a location, a skill or a rank in the queries of the model
EntityTerms ==
    {"london", "oslo", "nordics", "partner", "consultant", "python"}

NamesEntity(query) == \E term \in EntityTerms : Contains(Lower(query), term)

HasAvailabilityWord(query) ==
    \E term \in {"available", "unavailable", "free", "busy", "booked",
                 "scheduled", "week", "status"} : Contains(Lower(query), term)

\* a referential opener, a follow-up starter, a leading conjunction or a
\* continuation phrase
OtherFollowupRule(query) ==
    LET q == Lower(query)
        first == Words(q)[1]
    IN \/ first \in {"them", "they", "these", "those", "that", "this",
                     "he", "she", "his", "her", "their", "any"}
       \/ first \in {"and", "or", "but", "also"}
       \/ \E opener \in {"what about", "how about", "and what about", "what if",
                         "are there", "do they", "can you", "are any", "can any",
                         "are they", "show me", "find me", "list all"} :
              StartsWith(q, opener)
       \/ \E phrase \in {"what about", "how about", "instead of", "rather than",
                         "of them", "of those", "from them", "from those",
                         "as well", "in addition", "apart from"} :
              Contains(q, phrase)

\* the queries of the model that name a location, skill or rank in more than
\* four words, carry an availability word and match no other follow-up rule
EntityAvailabilityQueries ==
    {query \in Queries :
        /\ Len(Words(Lower(query))) > 4
        /\ NamesEntity(query)
        /\ HasAvailabilityWord(query)
        /\ ~OtherFollowupRule(query)}

\* C18: an utterance of more than four words that names a location, skill or
\* rank, contains an availability word and matches no other follow-up rule is
\* classified as a new query, whatever context the conversation holds.
C18_EntityAvailabilityIsNew ==
    (translation.query \in EntityAvailabilityQueries) => ~translation.is_followup

\* ---------------------------------------------------------------
\* Location claims
\* ---------------------------------------------------------------

\* the locations fetch_resources hands to the store query
StoreLocations == {last_query.locations[i] : i \in DOMAIN last_query.locations}

\* C19: every location that fetch_resources passes to the store query is one
\* of the known locations; a token that is neither a known city nor a region
\* name is dropped before the store is queried.
C19_OnlyKnownLocations ==
    (fetch.op = "fetch_resources") => StoreLocations \subseteq metadata_locations

\* the cities of a region name, by the region's aliases
RegionCities(name) ==
    IF name \in {"nordics", "nordic", "nordic countries", "scandinavia"}
    THEN <<"Oslo", "Stockholm", "Copenhagen">>
    ELSE IF name \in {"uk", "united kingdom", "britain"}
    THEN <<"London", "Manchester", "Belfast", "Bristol">>
    ELSE IF name \in {"us", "usa", "united states", "america"}
    THEN <<"New York", "Chicago", "San Francisco">>
    ELSE <<>>

IsRegion(location) == RegionCities(Lower(location)) # <<>>

\* C20: region expansion is idempotent: a query that names only a region
\* reaches the store as the region's member cities, none of the locations
\* passed to the store is a region name, and expanding the passed list again
\* returns the same list.
C20_ExpansionIdempotent ==
    (fetch.op = "fetch_resources") =>
        /\ (Len(fetch.query.locations) = 1 /\ IsRegion(fetch.query.locations[1]))
              => last_query.locations = RegionCities(Lower(fetch.query.locations[1]))
        /\ \A location \in StoreLocations : ~IsRegion(location)
        /\ expanded_locations(last_query.locations) = last_query.locations

\* a query naming the UK and a city has been expanded
C20_Witness ==
    /\ fetch.op = "fetch_resources"
    /\ fetch.query.locations = <<"UK", "Oslo">>
    /\ last_query.locations = <<"London", "Manchester", "Belfast", "Bristol", "Oslo">>

\* ---------------------------------------------------------------
\* Session claims
\* ---------------------------------------------------------------

\* the positions of the session history at which `message` was sent and whose
\* response, stored under the key of that send, is still in the cache and
\* not older than the TTL
LiveSends(message) ==
    {i \in DOMAIN session_history :
        /\ i % 2 = 1
        /\ session_history[i] = message
        /\ LET key == hash_query(message, SubSeq(session_history, 1, i - 1))
           IN /\ key \in DictKeys(response_cache)
              /\ clock - DictGet(response_cache, key).timestamp <= cache_ttl}

\* C21: with caching enabled, a message that was already sent in this session
\* within the TTL is served from the cache when it is sent again: the result
\* has cached = TRUE and the agent is not invoked.
C21_RepeatServedFromCache ==
    [][(/\ calls' = calls + 1
        /\ use_cache
        /\ LiveSends(call'.message) # {})
          => (call'.result.cached /\ ~call'.invoked)]_vars

\* the call that has just returned failed inside the agent executor
FailedCall ==
    /\ calls' = calls + 1
    /\ call'.invoked
    /\ ~call'.result.success

\* the cache without the entry of `key` when that entry is past its TTL
WithoutExpired(cache, key) ==
    SelectSeq(cache, LAMBDA e : ~(e.key = key /\ clock - e.timestamp > cache_ttl))

\* C22 as stated: a call in which the agent raises returns success = FALSE
\* with the error text and leaves the session history and the response cache
\* exactly as they were.
C22_AsStated ==
    [][FailedCall =>
          /\ call'.result.response = "error"
          /\ session_history' = session_history
          /\ response_cache' = response_cache]_vars

\* C22: a call in which the agent raises returns success = FALSE with the
\* error text, leaves the session history as it was and stores nothing in the
\* response cache; the cache changes at most by losing the expired entry of
\* the key the call looked up.
C22_FailureStoresNothing ==
    [][FailedCall =>
          /\ call'.result.response = "error"
          /\ ~call'.result.cached
          /\ session_history' = session_history
          /\ response_cache' = WithoutExpired(response_cache, call'.key)
          /\ inserts' = inserts]_vars

\* a failed call whose lookup purged an expired entry
C22_Witness ==
    /\ call.invoked
    /\ ~call.result.success
    /\ call.deleted
    /\ session_history = <<>>
    /\ response_cache = <<>>

\* C25: every process_message call that stores a response in the cache stores
\* it under the key it looked up at the start of the same call, also when the
\* session history is cut back to its last ten messages in between.
C25_StoreKeyIsLookupKey ==
    (call.stored_key # None) =>
        /\ call.stored_key = call.key
        /\ call.key \in DictKeys(response_cache)

\* a call that found the history at its cap, had it truncated and stored its
\* response
C25_Witness ==
    /\ calls = 7
    /\ Len(session_history) = HistoryMax
    /\ call.invoked
    /\ call.stored_key = call.key
    /\ call.key = "7" \o "6" \o "r"

\* C23: the first process_message after reset() (or on a new agent) behaves
\* as on a freshly constructed agent: with an empty session history the
\* lookup finds no entry, the agent is invoked and the result is not a
\* cached one, whatever was processed before the reset.
C23_ResetGivesFreshAgent ==
    [][(calls' = calls + 1 /\ session_history = <<>>)
          => (call'.invoked /\ ~call'.had_entry /\ ~call'.result.cached)]_vars

\* ---------------------------------------------------------------
\* Follow-up fetch claims
\* ---------------------------------------------------------------

\* the employee numbers in a result list, the Partner sentinel left out
EmployeeIds(results) ==
    {results[i].id : i \in DOMAIN results} \ {SentinelId}

\* C24: when cached results exist, every employee filter_cached_results
\* returns is one of the employees of the cached results of the previous
\* query: a follow-up narrows the previous result set and adds nobody to it.
C24_FollowUpOnlyNarrows ==
    (fetch.op = "filter_cached_results" /\ fetch.previous_results # <<>>)
        => EmployeeIds(fetch.result.employees) \subseteq EmployeeIds(fetch.previous_results)

\* the values of a list present in another list
Within(values, list) == Range(values) \subseteq Range(list)

\* C26: a filter_cached_results call that follows a fetch_resources call
\* queries the store with the previous query's filters combined with the
\* follow-up's: every location, rank and skill of the previous query and of
\* the follow-up is among those passed to the store, also when the previous
\* query matched no employee.
C26_PreviousFiltersKept ==
    (fetch.op = "filter_cached_results" /\ fetch.previous_query # EmptyDict) =>
        /\ Within(fetch.previous_query.locations, last_query.locations)
        /\ Within(fetch.previous_query.ranks, last_query.ranks)
        /\ Within(fetch.previous_query.skills, last_query.skills)
        /\ Within(fetch.follow_up.locations, last_query.locations)
        /\ Within(fetch.follow_up.ranks, last_query.ranks)
        /\ Within(fetch.follow_up.skills, last_query.skills)

\* C27: fetch_resources does not modify the query dictionary it is given:
\* after the call every list of the caller's dictionary holds the elements it
\* held before the call.
C27_QueryDictUntouched ==
    (fetch.op = "fetch_resources") => fetch.query_dict = fetch.query

\* the rank names of the hierarchy
HierarchyRanks ==
    {"Partner", "Associate Partner", "Consulting Director", "Managing Consultant",
     "Management Consultant", "Principal Consultant", "Senior Consultant",
     "Consultant", "Consultant Analyst", "Analyst"}

\* C28: rank normalization leaves a resolved rank set unchanged: when every
\* requested rank is a rank name of the hierarchy, the ranks passed to the
\* store are the requested ranks, each normalized to itself and nothing else.
C28_ResolvedRanksUnchanged ==
    (fetch.op = "fetch_resources" /\ Range(fetch.query.ranks) \subseteq HierarchyRanks)
        => last_query.ranks = fetch.query.ranks

\* ---------------------------------------------------------------
\* Partner fallback claims
\* ---------------------------------------------------------------

\* C29: whenever fetch_employees returns the Partner fallback sentinel, none
\* of the locations the sentinel lists as having Partners is one of the
\* locations the query asked for.
C29_SentinelLocationsElsewhere ==
    (fetch.op = "fetch_employees" /\ OnlySentinel(fetch.result)) =>
        fetch.result[1].partner_locations \cap Range(fetch.query.locations) = {}

\* ---------------------------------------------------------------
\* Query analysis claims
\* ---------------------------------------------------------------

\* the model responses of the call that could not be used
Failures(outcomes) == {i \in DOMAIN outcomes : outcomes[i] # "parsed"}

\* what holds of an analyze_query call at every step and on its return
C30_Outcome ==
    (analyze.pc # "idle") =>
        /\ analyze.invocations = Len(analyze.outcomes)
        /\ analyze.invocations <= 5
        \* a parsed response is the last one: the model is not invoked again
        /\ \A i \in DOMAIN analyze.outcomes :
              analyze.outcomes[i] = "parsed" =>
                  (i = Len(analyze.outcomes) /\ analyze.pc = "returned")
        /\ (analyze.pc = "returned") =>
              \/ /\ analyze.analysis = "parsed"
                 /\ analyze.error \in {None, "previous"}
                 /\ analyze.outcomes[Len(analyze.outcomes)] = "parsed"
                 /\ Failures(analyze.outcomes) = 1..(Len(analyze.outcomes) - 1)
              \/ /\ analyze.error \notin {None, "previous"}
                 /\ analyze.analysis \in {None, "previous"}
                 /\ Len(analyze.outcomes) = 5
                 /\ Failures(analyze.outcomes) = 1..5

\* C30: analyze_query terminates after at most 5 model invocations, and on
\* return exactly one of two outcomes holds: the analysis was set by the
\* first attempt whose response parsed, or the error was set after the fifth
\* failed attempt; it never returns having set neither and never invokes the
\* model after a successful parse.
C30_AnalyzeTerminates ==
    /\ []C30_Outcome
    /\ (analyze.pc = "running") ~> (analyze.pc = "returned")

\* a call that parsed the third response after two failures
C30_Witness ==
    /\ analyze.pc = "returned"
    /\ analyze.outcomes = <<"unparsable", "invoke_raises", "parsed">>
    /\ analyze.invocations = 3
    /\ analyze.analysis = "parsed"
    /\ analyze.error = None

====
